---- MODULE Spec2Model ----
(***************************************************************************)
(* Model of the sampling DSL interpreter of main.ipynb: the primitives     *)
(* sort_logits, slice_logits and threshold_logits, the line splitter       *)
(* parse_dsl and the interpreter loop interpret_dsl.                       *)
(*                                                                         *)
(* Representation.  A Python str is a sequence of one-character strings.   *)
(* A logit vector (np.ndarray of floats) is a sequence of integers; the    *)
(* float -inf is the integer NegInf, which lies below every finite value   *)
(* the model uses, so <, >, <=, >= and sorting order it as IEEE does.      *)
(* NaN and +inf logits are outside the model.  None is the empty sequence  *)
(* and an int k passed as an optional argument is <<k>>.                   *)
(***************************************************************************)
EXTENDS Integers, Sequences, FiniteSets

\* -np.inf (the mask value written by slice_logits and threshold_logits)
NegInf == -1000

None == <<>>
Some(k) == <<k>>

--------------------------------------------------------------------------
\* Python str helpers used by parse_dsl and interpret_dsl

\* whitespace as str.strip() and str.split() see it inside one line
IsSpace(c) == c \in {" ", "\t"}

\* s.split(sep) for a one-character sep: every piece, empty ones included
RECURSIVE SplitFrom(_, _, _, _)
SplitFrom(s, sep, k, cur) ==
    IF k > Len(s) THEN <<cur>>
    ELSE IF s[k] = sep THEN <<cur>> \o SplitFrom(s, sep, k + 1, <<>>)
    ELSE SplitFrom(s, sep, k + 1, Append(cur, s[k]))

StrSplit(s, sep) == SplitFrom(s, sep, 1, <<>>)

RECURSIVE LStrip(_)
LStrip(s) == IF s # <<>> /\ IsSpace(Head(s)) THEN LStrip(Tail(s)) ELSE s

RECURSIVE RStrip(_)
RStrip(s) ==
    IF s # <<>> /\ IsSpace(s[Len(s)]) THEN RStrip(SubSeq(s, 1, Len(s) - 1)) ELSE s

\* s.strip()
StrStrip(s) == RStrip(LStrip(s))

\* s.split() with no argument: the maximal runs of non-whitespace
RECURSIVE WordsFrom(_, _, _)
WordsFrom(s, k, cur) ==
    IF k > Len(s) THEN (IF cur = <<>> THEN <<>> ELSE <<cur>>)
    ELSE IF IsSpace(s[k])
         THEN (IF cur = <<>> THEN <<>> ELSE <<cur>>) \o WordsFrom(s, k + 1, <<>>)
         ELSE WordsFrom(s, k + 1, Append(cur, s[k]))

StrWords(s) == WordsFrom(s, 1, <<>>)

Digits == <<"0", "1", "2", "3", "4", "5", "6", "7", "8", "9">>

IsDigit(c) == \E d \in 1..10 : Digits[d] = c

DigitVal(c) == (CHOOSE d \in 1..10 : Digits[d] = c) - 1

RECURSIVE DigitsVal(_, _)
DigitsVal(s, acc) ==
    IF s = <<>> THEN acc ELSE DigitsVal(Tail(s), 10 * acc + DigitVal(Head(s)))

AllDigits(s) == s # <<>> /\ \A k \in 1..Len(s) : IsDigit(s[k])

\* exceptions: the Python type and the leading words of the message
Exc(type, msg) == [type |-> type, msg |-> msg]
Ok(v) == [ok |-> TRUE, val |-> v]
Raise(type, msg) == [ok |-> FALSE, err |-> Exc(type, msg)]

\* int(s): an optional sign and decimal digits, else ValueError
PyInt(s) ==
    LET signed == s # <<>> /\ Head(s) \in {"+", "-"}
        body == IF signed THEN Tail(s) ELSE s
    IN  IF AllDigits(body)
        THEN Ok(IF signed /\ Head(s) = "-" THEN 0 - DigitsVal(body, 0)
                ELSE DigitsVal(body, 0))
        ELSE Raise("ValueError", "invalid literal for int()")

\* float(s) on the literals the model writes: an optional sign and decimal
\* digits, or -inf; anything else is ValueError
PyFloat(s) ==
    IF s = <<"-", "i", "n", "f">> THEN Ok(NegInf)
    ELSE LET r == PyInt(s)
         IN  IF r.ok THEN r ELSE Raise("ValueError", "could not convert string to float")

--------------------------------------------------------------------------
\* numpy helpers

RECURSIVE Insert(_, _)
Insert(x, s) ==
    IF s = <<>> THEN <<x>>
    ELSE IF x <= Head(s) THEN <<x>> \o s
    ELSE <<Head(s)>> \o Insert(x, Tail(s))

\* np.unique(a) in place of np.sort(a): ascending, duplicates dropped
RECURSIVE NpUnique(_)
NpUnique(a) ==
    IF a = <<>> THEN <<>>
    ELSE LET rest == NpUnique(Tail(a))
         IN  IF \E p \in 1..Len(rest) : rest[p] = Head(a) THEN rest
             ELSE Insert(Head(a), rest)

\* np.sort(a): a new array, ascending
RECURSIVE NpSort(_)
NpSort(a) == IF a = <<>> THEN <<>> ELSE Insert(Head(a), NpSort(Tail(a)))

\* a[::-1]
Reversed(a) == [k \in 1..Len(a) |-> a[Len(a) + 1 - k]]

\* a slice bound as a[n:m] normalises it for an array of length len
SliceIndex(k, len) ==
    IF k < 0 THEN (IF k + len < 0 THEN 0 ELSE k + len)
    ELSE (IF k > len THEN len ELSE k)

\* mask = np.zeros_like(logits, dtype=bool); mask[n:m] = True
\* (position p of the model is index p - 1 of the array)
SliceMask(len, n, m) ==
    [p \in 1..len |-> SliceIndex(n, len) <= p - 1 /\ p - 1 < SliceIndex(m, len)]

--------------------------------------------------------------------------
\* the primitives

\* sort_logits without the [::-1] of the descending branch
sort_logits_nodesc(logits, order) ==
    IF order \in {<<"-">>, <<"+">>} THEN Ok(NpSort(logits))
    ELSE Raise("ValueError", "Invalid order")

sort_logits(logits, order) ==
    IF order = <<"-">> THEN Ok(Reversed(NpSort(logits)))
    ELSE IF order = <<"+">> THEN Ok(NpSort(logits))
    ELSE Raise("ValueError", "Invalid order")

\* slice_logits returning logits[n:m] in place of the masked array
slice_logits_truncating(logits, n, m) ==
    LET n0 == IF n = None THEN 0 ELSE n[1]
        m0 == IF m = None THEN Len(logits) ELSE m[1]
    IN  IF n0 < 0 \/ m0 > Len(logits) \/ n0 >= m0
        THEN Raise("ValueError", "Invalid slice range")
        ELSE Ok(SubSeq(logits, n0 + 1, m0))

\* slice_logits with n > m in place of n >= m in the range check
slice_logits_empty_ok(logits, n, m) ==
    LET n0 == IF n = None THEN 0 ELSE n[1]
        m0 == IF m = None THEN Len(logits) ELSE m[1]
    IN  IF n0 < 0 \/ m0 > Len(logits) \/ n0 > m0
        THEN Raise("ValueError", "Invalid slice range")
        ELSE LET mask == SliceMask(Len(logits), n0, m0)
             IN  Ok([p \in 1..Len(logits) |-> IF mask[p] THEN logits[p] ELSE NegInf])

\* slice_logits masking with 0 in place of -np.inf
slice_logits_zero_fill(logits, n, m) ==
    LET n0 == IF n = None THEN 0 ELSE n[1]
        m0 == IF m = None THEN Len(logits) ELSE m[1]
    IN  IF n0 < 0 \/ m0 > Len(logits) \/ n0 >= m0
        THEN Raise("ValueError", "Invalid slice range")
        ELSE LET mask == SliceMask(Len(logits), n0, m0)
             IN  Ok([p \in 1..Len(logits) |-> IF mask[p] THEN logits[p] ELSE 0])

slice_logits(logits, n, m) ==
    LET n0 == IF n = None THEN 0 ELSE n[1]
        m0 == IF m = None THEN Len(logits) ELSE m[1]
    IN  IF n0 < 0 \/ m0 > Len(logits) \/ n0 >= m0
        THEN Raise("ValueError", "Invalid slice range")
        ELSE LET mask == SliceMask(Len(logits), n0, m0)
             IN  Ok([p \in 1..Len(logits) |-> IF mask[p] THEN logits[p] ELSE NegInf])

\* threshold_logits with <= and >= compared as < and >
threshold_logits_strict(logits, op, value) ==
    LET N == Len(logits)
    IN  IF op \in {<<"<">>, <<"<", "=">>}
        THEN Ok([p \in 1..N |-> IF logits[p] < value THEN NegInf ELSE logits[p]])
        ELSE IF op \in {<<">">>, <<">", "=">>}
        THEN Ok([p \in 1..N |-> IF logits[p] > value THEN NegInf ELSE logits[p]])
        ELSE Raise("ValueError", "Invalid operator")

\* each branch is np.where(logits op value, -np.inf, logits)
threshold_logits(logits, op, value) ==
    LET N == Len(logits)
    IN  IF op = <<"<">>
        THEN Ok([p \in 1..N |-> IF logits[p] < value THEN NegInf ELSE logits[p]])
        ELSE IF op = <<">">>
        THEN Ok([p \in 1..N |-> IF logits[p] > value THEN NegInf ELSE logits[p]])
        ELSE IF op = <<"<", "=">>
        THEN Ok([p \in 1..N |-> IF logits[p] <= value THEN NegInf ELSE logits[p]])
        ELSE IF op = <<">", "=">>
        THEN Ok([p \in 1..N |-> IF logits[p] >= value THEN NegInf ELSE logits[p]])
        ELSE Raise("ValueError", "Invalid operator")

--------------------------------------------------------------------------
\* the interpreter

VARIABLES
    caller,      \* the contents of the array object the caller passed in
    dsl_string,  \* the program text passed in
    pc,          \* "start", "loop", "returned" or "raised"
    commands,    \* the list parse_dsl returned
    done,        \* how many commands of the list the for loop has applied
    logits,      \* the contents of the array the local name logits is bound to
    shared,      \* TRUE while the local name is bound to the caller's object
    error        \* the exception that left interpret_dsl, NoError if none

vars == <<caller, dsl_string, pc, commands, done, logits, shared, error>>

NoError == Exc("", "")

RECURSIVE StrippedNonBlank(_)
StrippedNonBlank(lines) ==
    IF lines = <<>> THEN <<>>
    ELSE LET c == StrStrip(Head(lines))
         IN  (IF c # <<>> THEN <<c>> ELSE <<>>) \o StrippedNonBlank(Tail(lines))

\* [cmd.strip() for cmd in dsl_string.split("\n") if cmd.strip()]
parse_dsl(text) == StrippedNonBlank(StrSplit(text, "\n"))

KwSort == <<"s", "o", "r", "t">>
KwSlice == <<"s", "l", "i", "c", "e">>
KwThreshold == <<"t", "h", "r", "e", "s", "h", "o", "l", "d">>

\* int(x) if x else None
OptInt(x) ==
    IF x = <<>> THEN Ok(None)
    ELSE LET r == PyInt(x) IN IF r.ok THEN Ok(Some(r.val)) ELSE r

\* the body of the for loop for one command (a stripped, non-blank line)
ExecCommand(vec, command) ==
    LET parts == StrWords(command)
        cmd == parts[1]
    IN  IF cmd = KwSort
        THEN sort_logits(vec, IF Len(parts) > 1 THEN parts[2] ELSE <<"-">>)
        ELSE IF cmd = KwSlice
        THEN IF Len(parts) < 2 THEN Raise("IndexError", "list index out of range")
             ELSE LET nm == StrSplit(parts[2], ":")
                  IN  IF Len(nm) < 2
                      THEN Raise("ValueError", "not enough values to unpack")
                      ELSE IF Len(nm) > 2
                      THEN Raise("ValueError", "too many values to unpack")
                      ELSE LET n == OptInt(nm[1])
                               m == OptInt(nm[2])
                           IN  IF ~n.ok THEN n
                               ELSE IF ~m.ok THEN m
                               ELSE slice_logits(vec, n.val, m.val)
        ELSE IF cmd = KwThreshold
        THEN IF Len(parts) < 3 THEN Raise("IndexError", "list index out of range")
             ELSE LET value == PyFloat(parts[3])
                  IN  IF ~value.ok THEN value
                      ELSE threshold_logits(vec, parts[2], value.val)
        ELSE Raise("ValueError", "Unknown command")

\* logits[:] = f(logits): writes the result into the array the local name is
\* bound to, which is the caller's until the name is rebound
WriteInPlace(callerArr, wasShared, fresh) ==
    [caller |-> IF wasShared THEN fresh ELSE callerArr,
     logits |-> fresh, shared |-> wasShared]

\* logits = f(logits): the local name is bound to the fresh array f returned;
\* the object it was bound to before is not written
Rebind(callerArr, wasShared, fresh) ==
    [caller |-> callerArr, logits |-> fresh, shared |-> FALSE]

\* commands = parse_dsl(dsl_string)
Parse ==
    /\ pc = "start"
    /\ commands' = parse_dsl(dsl_string)
    /\ pc' = "loop"
    /\ UNCHANGED <<caller, dsl_string, done, logits, shared, error>>

\* one iteration of: for command in commands
Step ==
    /\ pc = "loop"
    /\ done < Len(commands)
    /\ LET r == ExecCommand(logits, commands[done + 1])
       IN  IF r.ok
           THEN LET b == Rebind(caller, shared, r.val)
                IN  /\ caller' = b.caller
                    /\ logits' = b.logits
                    /\ shared' = b.shared
                    /\ done' = done + 1
                    /\ UNCHANGED <<pc, error>>
           ELSE /\ pc' = "raised"
                /\ error' = r.err
                /\ UNCHANGED <<caller, logits, shared, done>>
    /\ UNCHANGED <<dsl_string, commands>>

\* return logits
Return ==
    /\ pc = "loop"
    /\ done = Len(commands)
    /\ pc' = "returned"
    /\ UNCHANGED <<caller, dsl_string, commands, done, logits, shared, error>>

Next == Parse \/ Step \/ Return

--------------------------------------------------------------------------
\* inputs: the vectors and the program texts the interpreter is called with

\* longest vector and largest finite logit of the one-command and top-k runs
MaxLen == 3
MaxVal == 3
\* the same for the runs of whole programs, and their number of lines
VecLen == 2
VecVal == 2
ProgLen == 2

Vectors(maxLen, maxVal) ==
    UNION {[1..n -> {NegInf} \cup 1..maxVal] : n \in 0..maxLen}

RECURSIVE NatStr(_)
NatStr(k) == IF k < 10 THEN <<Digits[k + 1]>> ELSE NatStr(k \div 10) \o <<Digits[(k % 10) + 1]>>

\* the decimal literal of an int, as str(k) writes it
IntStr(k) == IF k < 0 THEN <<"-">> \o NatStr(0 - k) ELSE NatStr(k)

\* an optional slice bound as written in the program: empty when omitted
BoundStr(b) == IF b = None THEN <<>> ELSE IntStr(b[1])

\* a threshold value as written in the program
ValueStr(v) == IF v = NegInf THEN <<"-", "i", "n", "f">> ELSE IntStr(v)

RECURSIVE Joined(_, _)
Joined(pieces, sep) ==
    IF pieces = <<>> THEN <<>>
    ELSE IF Len(pieces) = 1 THEN pieces[1]
    ELSE pieces[1] \o <<sep>> \o Joined(Tail(pieces), sep)

Line(tokens) == Joined(tokens, " ")
Text(lines) == Joined(lines, "\n")

Orders == {<<"-">>, <<"+">>}
Comparators == {<<"<">>, <<">">>, <<"<", "=">>, <<">", "=">>}
OptBounds == {None} \cup {Some(k) : k \in (0 - 1)..(MaxLen + 1)}
ThresholdValues == {NegInf} \cup 0..(MaxVal + 1)

SortLine(order) == Line(<<KwSort, order>>)
BareSortLine == KwSort
SliceLine(n, m) == Line(<<KwSlice, BoundStr(n) \o <<":">> \o BoundStr(m)>>)
ThresholdLine(op, value) == Line(<<KwThreshold, op, ValueStr(value)>>)

\* programs of one command
OneCommandPrograms ==
    {BareSortLine}
    \cup {SortLine(o) : o \in Orders}
    \cup {SliceLine(n, m) : n \in OptBounds, m \in OptBounds}
    \cup {ThresholdLine(op, v) : op \in Comparators, v \in ThresholdValues}

\* the top_k programs: the recipe of the demo cell (slice :k) and the recipe
\* of the notebook's text (slice k:), after sort - or a bare sort
TopKProgram(sortLine, k) == Text(<<sortLine, SliceLine(None, Some(k))>>)
RecipeProgram(sortLine, k) == Text(<<sortLine, SliceLine(Some(k), None)>>)

TopKPrograms ==
    {TopKProgram(s, k) : s \in {BareSortLine, SortLine(<<"-">>)}, k \in 1..MaxLen}
    \cup {RecipeProgram(s, k) : s \in {BareSortLine, SortLine(<<"-">>)}, k \in 1..MaxLen}

Bogus == <<"b", "o", "g", "u", "s">>
Junk == <<"j", "u", "n", "k">>

\* lines of whole programs: each command, a failing range, an unknown
\* keyword, a blank line and a line with surrounding whitespace
ProgLines ==
    { BareSortLine, SortLine(<<"+">>),
      SliceLine(None, Some(1)), SliceLine(Some(1), None), SliceLine(Some(1), Some(1)),
      ThresholdLine(<<"<">>, 2), ThresholdLine(<<">", "=">>, 2),
      Bogus, <<" ">>, <<" ">> \o SortLine(<<"-">>) \o <<" ">> }

\* lines with the wrong number of arguments or a malformed argument
BadLines ==
    { Line(<<KwSlice>>), Line(<<KwSlice, <<"0", ":", "1">>, Junk>>),
      Line(<<KwThreshold, <<"<">>>>), Line(<<KwThreshold, <<"<">>, <<"1">>, <<"2">>>>),
      Line(<<KwSort, <<"x">>>>), Line(<<KwSlice, <<"a", ":", "1">>>>),
      Line(<<KwSlice, <<"1">>>>), Line(<<KwSlice, <<"0", ":", "1", ":", "2">>>>),
      Line(<<KwThreshold, <<"=", "=">>, <<"1">>>>), Line(<<KwThreshold, <<"<">>, Junk>>) }

RECURSIVE SeqsUpTo(_, _)
SeqsUpTo(S, n) ==
    IF n = 0 THEN {<<>>}
    ELSE LET shorter == SeqsUpTo(S, n - 1)
         IN  shorter \cup {Append(q, x) : q \in {r \in shorter : Len(r) = n - 1}, x \in S}

Programs(lines, n) == {Text(q) : q \in SeqsUpTo(lines, n)}

InitWith(vectors, programs) ==
    /\ caller \in vectors
    /\ dsl_string \in programs
    /\ pc = "start"
    /\ commands = <<>>
    /\ done = 0
    /\ logits = caller
    /\ shared = TRUE
    /\ error = NoError

\* whole programs
Init == InitWith(Vectors(VecLen, VecVal), Programs(ProgLines, ProgLen))
Spec == Init /\ [][Next]_vars

\* whole programs with malformed lines
InitBad == InitWith(Vectors(VecLen, VecVal), Programs(ProgLines \cup BadLines, ProgLen))
SpecBad == InitBad /\ [][Next]_vars

\* one command
InitOne == InitWith(Vectors(MaxLen, MaxVal), OneCommandPrograms)
SpecOne == InitOne /\ [][Next]_vars

\* sort, then slice
InitTopK == InitWith(Vectors(MaxLen, MaxVal), TopKPrograms)
SpecTopK == InitTopK /\ [][Next]_vars

--------------------------------------------------------------------------
\* vocabulary of the properties

Count(a, x) == Cardinality({p \in 1..Len(a) : a[p] = x})
Values(a) == {a[p] : p \in 1..Len(a)}
SameMultiset(a, b) ==
    /\ Len(a) = Len(b)
    /\ \A x \in Values(a) \cup Values(b) : Count(a, x) = Count(b, x)

Min2(a, b) == IF a < b THEN a ELSE b
Max2(a, b) == IF a > b THEN a ELSE b

\* how many copies of x are among the k largest entries of a
KLargestCount(a, k, x) ==
    Min2(Count(a, x), Max2(0, k - Cardinality({p \in 1..Len(a) : a[p] > x})))

Compares(op, v, value) ==
    IF op = <<"<">> THEN v < value
    ELSE IF op = <<">">> THEN v > value
    ELSE IF op = <<"<", "=">> THEN v <= value
    ELSE v >= value

\* the error classes of the specification, read off the exceptions of the code
IsRangeError(e) == e.type = "ValueError" /\ e.msg = "Invalid slice range"
\* (an IndexError for a missing argument counts as a parse failure)
IsParseError(e) ==
    \/ /\ e.type = "ValueError"
       /\ e.msg \in { "Unknown command", "Invalid order", "Invalid operator",
                      "invalid literal for int()", "could not convert string to float",
                      "not enough values to unpack", "too many values to unpack" }
    \/ e.type = "IndexError"

\* the argument grammar of the specification's parser
IsIntOrEmpty(x) == x = <<>> \/ PyInt(x).ok
BadArgCount(command) ==
    LET parts == StrWords(command)
    IN  \/ parts[1] = KwSlice /\ Len(parts) # 2
        \/ parts[1] = KwThreshold /\ Len(parts) # 3
Malformed(command) ==
    LET parts == StrWords(command)
    IN  \/ parts[1] \notin {KwSort, KwSlice, KwThreshold}
        \/ parts[1] = KwSort /\ Len(parts) > 1 /\ parts[2] \notin Orders
        \/ parts[1] = KwSlice /\ Len(parts) >= 2
              /\ LET nm == StrSplit(parts[2], ":")
                 IN  Len(nm) # 2 \/ ~IsIntOrEmpty(nm[1]) \/ ~IsIntOrEmpty(nm[2])
        \/ parts[1] = KwThreshold /\ Len(parts) >= 3
              /\ (parts[2] \notin Comparators \/ ~PyFloat(parts[3]).ok)

Finished == pc \in {"returned", "raised"}

\* the one-command programs with the arguments they were written from
ThresholdCases ==
    {[op |-> op, value |-> v, text |-> ThresholdLine(op, v)] :
        op \in Comparators, v \in ThresholdValues}
SliceCases ==
    {[n |-> n, m |-> m, text |-> SliceLine(n, m)] : n \in OptBounds, m \in OptBounds}

--------------------------------------------------------------------------
\* C1: the working vector has the length of the input after every applied
\* command, so a returned vector has exactly the input length N.
C1_LengthPreserved == Len(logits) = Len(caller)

C1_Witness ==
    /\ pc = "returned" /\ done = 2 /\ Len(caller) = 2
    /\ logits[2] = NegInf /\ caller[2] # NegInf

\* C2: sort - (or a bare sort) followed by slice :k, 0 < k <= N, returns the
\* k largest input values in descending order at positions 0..k-1 and -inf
\* at positions k..N-1.
C2_TopK ==
    \A k \in 1..Len(caller) :
        dsl_string \in {TopKProgram(SortLine(<<"-">>), k), TopKProgram(BareSortLine, k)}
        => /\ pc # "raised"
           /\ pc = "returned" =>
                /\ Len(logits) = Len(caller)
                /\ \A p \in 1..(k - 1) : logits[p] >= logits[p + 1]
                /\ \A x \in Values(caller) \cup Values(SubSeq(logits, 1, k)) :
                      Count(SubSeq(logits, 1, k), x) = KLargestCount(caller, k, x)
                /\ \A p \in (k + 1)..Len(logits) : logits[p] = NegInf

C2_Witness ==
    /\ pc = "returned" /\ dsl_string = TopKProgram(BareSortLine, 2)
    /\ caller = <<1, 3, 2>> /\ logits = <<3, 2, NegInf>>

\* C3 as stated: after threshold op value, position i is -inf exactly when
\* (v[i] op value) holds and is v[i] otherwise.
C3_ExactlyWhenCompares ==
    \A c \in ThresholdCases :
        dsl_string = c.text
        => /\ pc # "raised"
           /\ pc = "returned" =>
                /\ Len(logits) = Len(caller)
                /\ \A p \in 1..Len(caller) :
                      /\ logits[p] = NegInf <=> Compares(c.op, caller[p], c.value)
                      /\ ~Compares(c.op, caller[p], c.value) => logits[p] = caller[p]

\* C3 amended: position i is -inf when (v[i] op value) holds and is v[i]
\* otherwise, so it is -inf exactly when the comparison holds or v[i] already
\* is -inf; threshold < p leaves exactly the values v >= p other than -inf
\* unmasked, at their positions.
C3_MaskedIfCompares ==
    \A c \in ThresholdCases :
        dsl_string = c.text
        => /\ pc # "raised"
           /\ pc = "returned" =>
                /\ Len(logits) = Len(caller)
                /\ \A p \in 1..Len(caller) :
                      /\ logits[p] = (IF Compares(c.op, caller[p], c.value)
                                         THEN NegInf ELSE caller[p])
                      /\ logits[p] = NegInf
                            <=> (Compares(c.op, caller[p], c.value) \/ caller[p] = NegInf)
                      /\ c.op = <<"<">> =>
                            /\ logits[p] # NegInf
                                  <=> (caller[p] >= c.value /\ caller[p] # NegInf)
                            /\ logits[p] # NegInf => logits[p] = caller[p]

C3_Witness ==
    /\ pc = "returned" /\ dsl_string = ThresholdLine(<<"<">>, 2)
    /\ caller = <<1, 3, 2>> /\ logits = <<NegInf, 3, 2>>

\* C4: slice n:m (omitted n is 0, omitted m is N) fails with a RangeError and
\* returns nothing when n >= m, n < 0 or m > N, for every N including 0;
\* every other pair of bounds succeeds.
C4_SliceRange ==
    \A c \in SliceCases :
        (dsl_string = c.text /\ Finished)
        => LET n0 == IF c.n = None THEN 0 ELSE c.n[1]
               m0 == IF c.m = None THEN Len(caller) ELSE c.m[1]
           IN  IF n0 >= m0 \/ n0 < 0 \/ m0 > Len(caller)
               THEN pc = "raised" /\ IsRangeError(error) /\ done = 0
               ELSE pc = "returned" /\ done = 1

C4_Witness ==
    /\ pc = "raised" /\ IsRangeError(error)
    /\ dsl_string = SliceLine(None, None) /\ Len(caller) = 0

\* C5: every line is parsed before the first command is executed: if any line
\* is malformed, interpret_dsl fails with a ParseError and no command has
\* been applied to the vector, whatever the earlier lines are.
C5_ParsedBeforeExecution ==
    (pc # "start" /\ \E k \in 1..Len(commands) : Malformed(commands[k]))
    => /\ done = 0
       /\ pc # "returned"
       /\ pc = "raised" => IsParseError(error)

\* C6: sort - followed by slice k:, 0 < k < N, returns a vector in which
\* exactly the k largest input values are unmasked and every other entry is
\* -inf.
C6_RecipeIsTopK ==
    \A k \in 1..(Len(caller) - 1) :
        dsl_string = RecipeProgram(SortLine(<<"-">>), k)
        => /\ pc # "raised"
           /\ pc = "returned" =>
                /\ Len(logits) = Len(caller)
                /\ \A x \in (Values(caller) \cup Values(logits)) \ {NegInf} :
                      Count(logits, x) = KLargestCount(caller, k, x)

\* C7: a slice line takes exactly one argument and a threshold line exactly
\* two: a line with too few or too many is never run, it makes interpret_dsl
\* fail with a ParseError.
C7_ArgumentCounts ==
    \A k \in 1..Len(commands) :
        BadArgCount(commands[k])
        => /\ done < k
           /\ pc # "returned"
           /\ (pc = "raised" /\ done = k - 1) => IsParseError(error)

\* C8: sort - returns a permutation of the input in non-increasing order and
\* sort + one in non-decreasing order, so the -inf entries are last after
\* sort - and first after sort +.
C8_SortPermutes ==
    \A o \in Orders :
        dsl_string = SortLine(o)
        => /\ pc # "raised"
           /\ pc = "returned" =>
                /\ SameMultiset(logits, caller)
                /\ \A p \in 1..(Len(logits) - 1) :
                      IF o = <<"-">> THEN logits[p] >= logits[p + 1]
                                     ELSE logits[p] <= logits[p + 1]
                /\ \A p \in 1..Len(logits), q \in 1..Len(logits) :
                      (logits[p] = NegInf /\ logits[q] # NegInf)
                      => IF o = <<"-">> THEN q < p ELSE p < q

C8_Witness ==
    /\ pc = "returned" /\ dsl_string = SortLine(<<"-">>)
    /\ caller = <<NegInf, 1, 2>> /\ logits = <<2, 1, NegInf>>

\* C9: the caller's vector holds the same values at the same positions after
\* the call as before it, whether interpret_dsl returns or fails part-way.
C9_CallerUnchanged == [][caller' = caller]_vars

C9_Witness == pc = "raised" /\ done = 1 /\ logits # caller

\* C10: a successfully applied command never lowers the number of -inf
\* entries of the working vector, and the entries other than -inf are always
\* a sub-multiset of those of the input.
C10_MaskingMonotone ==
    /\ [][done' = done + 1 => Count(logits', NegInf) >= Count(logits, NegInf)]_vars
    /\ [](\A x \in Values(logits) \ {NegInf} : Count(logits, x) <= Count(caller, x))

C10_Witness ==
    /\ pc = "returned" /\ done = 2
    /\ Count(logits, NegInf) = 1 /\ Count(caller, NegInf) = 0

====
